---- MODULE Spec2Model ----
(***************************************************************************)
(* Model of src/server.js: an Express server that keeps a todo list in one *)
(* JSON file.  Every handler is an async function that suspends at each    *)
(* fs.readFile / fs.writeFile; one action of the model is one file         *)
(* operation together with the synchronous code that runs up to the next   *)
(* file operation (or up to the response).                                 *)
(***************************************************************************)
EXTENDS Integers, Sequences, FiniteSets, TLC

\* ------------------------------------------------------------------ bounds
MaxRequests == 2      \* requests of one run of Spec, all may overlap
MaxSeqRequests == 4   \* requests of one run of SpecSeq, one at a time
MaxPosts == 4         \* POST requests of one run of SpecPost, all may overlap
MaxStoreCalls == 3    \* calls of the Store's functions in one run of SpecStore
MaxStoreLen == 2      \* todos in a collection handed to writeTodosToFile there

NumSlots == IF MaxPosts > MaxRequests THEN MaxPosts ELSE MaxRequests
Slots == 1..NumSlots

\* ------------------------------------------------------------ JS values
\* A value of a request body field: undefined, a number, a string (a
\* sequence of characters) or a boolean.
Undefined == [type |-> "undefined", str |-> <<>>, num |-> 0, bool |-> FALSE]
Number(n) == [type |-> "number", str |-> <<>>, num |-> n, bool |-> FALSE]
String(s) == [type |-> "string", str |-> s, num |-> 0, bool |-> FALSE]
Bool(b) == [type |-> "boolean", str |-> <<>>, num |-> 0, bool |-> b]

\* JavaScript truthiness, as used by `!title`, `title && ...` and Boolean().
Truthy(v) ==
  CASE v.type = "undefined" -> FALSE
    [] v.type = "number" -> v.num # 0
    [] v.type = "string" -> Len(v.str) > 0
    [] v.type = "boolean" -> v.bool

\* String.prototype.trim: drops the leading and trailing white space.
RECURSIVE TrimStart(_)
TrimStart(s) ==
  IF s = <<>> THEN <<>>
  ELSE IF Head(s) = " " THEN TrimStart(Tail(s)) ELSE s

RECURSIVE TrimEnd(_)
TrimEnd(s) ==
  IF s = <<>> THEN <<>>
  ELSE IF s[Len(s)] = " " THEN TrimEnd(SubSeq(s, 1, Len(s) - 1)) ELSE s

trim(s) == TrimEnd(TrimStart(s))

\* parseInt(req.params.id): the value of the longest decimal prefix, NaN
\* when there is none.  NaN is unequal to every id.
NaN == -1
DigitValue(c) ==
  CASE c = "0" -> 0 [] c = "1" -> 1 [] c = "2" -> 2 [] c = "3" -> 3
    [] c = "4" -> 4 [] c = "5" -> 5 [] c = "6" -> 6 [] c = "7" -> 7
    [] c = "8" -> 8 [] c = "9" -> 9 [] OTHER -> NaN

RECURSIVE ParsePrefix(_, _)
ParsePrefix(s, acc) ==
  IF s = <<>> \/ DigitValue(Head(s)) = NaN THEN acc
  ELSE ParsePrefix(Tail(s), 10 * acc + DigitValue(Head(s)))

parseInt(s) ==
  IF s = <<>> \/ DigitValue(Head(s)) = NaN THEN NaN ELSE ParsePrefix(s, 0)

\* ------------------------------------------------------------ the file
\* todos.json: absent, or present with a content that is either the JSON
\* text of an array of todos or something JSON.parse rejects.  The text of
\* an array is modelled by the sequence of its rows, one row per todo, the
\* fields in the order JSON.stringify writes them.
JSONstringify(todos) ==
  [i \in 1..Len(todos) |->
     <<todos[i].id, todos[i].title, todos[i].completed, todos[i].createTime>>]

\* A variant of JSONparse that does not bring back createTime.
JSONparseWithoutCreateTime(rows) ==
  [i \in 1..Len(rows) |->
     [id |-> rows[i][1], title |-> rows[i][2],
      completed |-> rows[i][3], createTime |-> 0]]

JSONparse(rows) ==
  [i \in 1..Len(rows) |->
     [id |-> rows[i][1], title |-> rows[i][2],
      completed |-> rows[i][3], createTime |-> rows[i][4]]]

NoFile == [exists |-> FALSE, valid |-> FALSE, rows |-> <<>>]
Garbage == [exists |-> TRUE, valid |-> FALSE, rows |-> <<>>]
FileWith(todos) ==
  [exists |-> TRUE, valid |-> TRUE, rows |-> JSONstringify(todos)]

\* ------------------------------------------------------------ requests
Idle ==
  [pc |-> "idle", method |-> "NONE", pathId |-> <<>>, title |-> Undefined,
   completed |-> Undefined, loaded |-> <<>>, todos |-> <<>>, todoId |-> NaN,
   reads |-> 0, writes |-> 0, responses |-> 0, status |-> 0, data |-> <<>>]

VARIABLES
  file,     \* the backing file TODO_FILE_PATH
  startup,  \* position of the app.listen callback
  req,      \* per slot: the request being serviced, or the last one served
  clock,    \* logical time: the number of requests received so far
  issued    \* ids returned by 201 responses so far

vars == <<file, startup, req, clock, issued>>

\* The shape of the state.
TypeOK ==
  /\ file.exists \in BOOLEAN /\ file.valid \in BOOLEAN
  /\ file.rows \in Seq(Nat \X Seq({" ", "a", "b"}) \X BOOLEAN \X Nat)
  /\ startup \in {"reading", "init", "done", "failed"}
  /\ \A r \in Slots :
        /\ req[r].pc \in {"idle", "init", "genid", "initid", "save", "done"}
        /\ req[r].method \in
             {"NONE", "GET", "GETID", "POST", "PUT", "DELETE", "SAVE"}
        /\ req[r].status \in {0, 200, 201, 400, 404, 500}
        /\ req[r].reads \in 0..2 /\ req[r].writes \in 0..3
        /\ req[r].responses \in 0..1
  /\ clock \in Nat
  /\ issued \subseteq Nat

\* ------------------------------------------------------------ inputs
\* Request inputs of the serial runs: body.title, body.completed, :id.
Titles == {Undefined, Number(123), String(<<" ">>), String(<<" ", "a">>)}
Completeds == {Undefined, Bool(FALSE), Bool(TRUE)}
PathIds == {<<"1">>, <<"2">>, <<"1", "a">>, <<"a">>}

\* Request inputs of the interleaved runs.
ConcTitles == {Undefined, String(<<"b">>)}
ConcCompleteds == {Undefined, Bool(TRUE)}
ConcPathIds == {<<"1">>, <<"2">>}

\* ------------------------------------------------------------ the Store
\* A variant of ReadOutcome that takes content JSON.parse rejects for a
\* missing file, so that the catch branch initialises the file again.
ReadOutcomeLenient(f) ==
  IF ~f.exists \/ ~f.valid THEN "ENOENT" ELSE "ok"

\* What fs.readFile followed by JSON.parse comes to in readTodosFromFile.
ReadOutcome(f) ==
  IF ~f.exists THEN "ENOENT" ELSE IF f.valid THEN "ok" ELSE "error"

\* What writeTodosToFile leaves in the file.
writeTodosToFile(todos) == FileWith(todos)

Max(S) == CHOOSE x \in S : \A y \in S : y <= x

\* A variant of generateUniqueId that counts the todos instead of taking
\* the largest id.
generateUniqueIdByLength(todos) == Len(todos) + 1

\* A variant of generateUniqueId that returns the largest id as it is.
generateUniqueIdNoIncrement(todos) ==
  IF Len(todos) = 0 THEN 1
  ELSE Max({todos[i].id : i \in 1..Len(todos)})

\* generateUniqueId, applied to the todos its own read returned.
generateUniqueId(todos) ==
  IF Len(todos) = 0 THEN 1
  ELSE Max({todos[i].id : i \in 1..Len(todos)}) + 1

\* A variant of findIndex whose miss selects the last element, as the
\* index -1 does in Array.prototype.splice.
findIndexOrLast(todos, todoId) ==
  IF \E i \in 1..Len(todos) : todos[i].id = todoId
  THEN CHOOSE i \in 1..Len(todos) :
         /\ todos[i].id = todoId
         /\ \A j \in 1..(i - 1) : todos[j].id # todoId
  ELSE Len(todos)

\* Array.prototype.findIndex(item => item.id === todoId), counted from 1;
\* 0 stands for JavaScript's -1.
findIndex(todos, todoId) ==
  IF \E i \in 1..Len(todos) : todos[i].id = todoId
  THEN CHOOSE i \in 1..Len(todos) :
         /\ todos[i].id = todoId
         /\ \A j \in 1..(i - 1) : todos[j].id # todoId
  ELSE 0

\* A variant of splice without the delete count: todos.splice(todoIndex).
spliceToEnd(todos, i) == SubSeq(todos, 1, i - 1)

\* todos.splice(todoIndex, 1)
splice(todos, i) ==
  SubSeq(todos, 1, i - 1) \o SubSeq(todos, i + 1, Len(todos))

\* ------------------------------------------------------------ handlers
\* A variant of Respond whose 404 branch returns without sending anything.
RespondUnlessMissing(q, status, data) ==
  IF status = 404 THEN [q EXCEPT !.pc = "done"]
  ELSE [q EXCEPT !.pc = "done", !.responses = @ + 1, !.status = status,
                 !.data = data]

\* res.status(status).json(...): the handler's response, after which its
\* code returns.
Respond(q, status, data) ==
  [q EXCEPT !.pc = "done", !.responses = @ + 1, !.status = status,
            !.data = data]

Receive(m, p, t, c) ==
  [Idle EXCEPT !.pc = "recv", !.method = m, !.pathId = p, !.title = t,
               !.completed = c, !.todoId = parseInt(p)]

\* A variant of the validation without the typeof test.
validTitleTruthyOnly(t) == Truthy(t)

\* POST's validation: if (!title || typeof title !== 'string') -> 400
validTitle(t) == Truthy(t) /\ t.type = "string"

\* POST's `completed = false` default, then Boolean(completed).
postCompleted(c) == IF c.type = "undefined" THEN FALSE ELSE Truthy(c)

\* A variant of newTodo that stores the title as received.
newTodoUntrimmed(id, t, c, now) ==
  [id |-> id, title |-> t.str, completed |-> postCompleted(c),
   createTime |-> now]

\* The newTodo object literal of POST.
newTodo(id, t, c, now) ==
  [id |-> id, title |-> trim(t.str), completed |-> postCompleted(c),
   createTime |-> now]

\* A variant of updatedTodo that stamps the todo anew.
updatedTodoRestamped(old, t, c) ==
  [id |-> old.id,
   title |-> IF Truthy(t) THEN trim(t.str) ELSE old.title,
   completed |-> IF c.type # "undefined" THEN Truthy(c) ELSE old.completed,
   createTime |-> old.createTime + 1]

\* A variant of updatedTodo that applies completed only when it is truthy.
updatedTodoTruthyCompleted(old, t, c) ==
  [id |-> old.id,
   title |-> IF Truthy(t) THEN trim(t.str) ELSE old.title,
   completed |-> IF Truthy(c) THEN TRUE ELSE old.completed,
   createTime |-> old.createTime]

\* The updatedTodo object literal of PUT (title is truthy string or falsy).
updatedTodo(old, t, c) ==
  [id |-> old.id,
   title |-> IF Truthy(t) THEN trim(t.str) ELSE old.title,
   completed |-> IF c.type # "undefined" THEN Truthy(c) ELSE old.completed,
   createTime |-> old.createTime]

\* The handler's code from the return of its first readTodosFromFile, which
\* returned ts, up to its next file operation or its response.
AfterLoad(q, ts) ==
  LET i == findIndex(ts, q.todoId)
      l == [q EXCEPT !.loaded = ts, !.todos = ts]
  IN CASE q.method = "GET" -> Respond(l, 200, ts)
       [] q.method = "GETID" ->
            IF i = 0 THEN Respond(l, 404, <<>>) ELSE Respond(l, 200, <<ts[i]>>)
       [] q.method = "POST" -> [l EXCEPT !.pc = "genid"]
       [] q.method = "PUT" ->
            IF i = 0 THEN Respond(l, 404, <<>>)
            ELSE IF Truthy(q.title) /\ q.title.type # "string"
              THEN Respond(l, 500, <<>>)  \* title.trim is not a function
              ELSE LET u == updatedTodo(ts[i], q.title, q.completed)
                   IN [l EXCEPT !.pc = "save", !.todos = [ts EXCEPT ![i] = u],
                                !.data = <<u>>]
       [] q.method = "DELETE" ->
            IF i = 0 THEN Respond(l, 404, <<>>)
            ELSE [l EXCEPT !.pc = "save", !.todos = splice(ts, i)]

\* A variant of FirstLoad whose failed read counts as an empty collection.
FirstLoadIgnoringError(q) ==
  LET l == [q EXCEPT !.reads = 1]
  IN CASE ReadOutcome(file) = "ok" -> AfterLoad(l, JSONparse(file.rows))
       [] ReadOutcome(file) = "ENOENT" -> [l EXCEPT !.pc = "init"]
       [] ReadOutcome(file) = "error" -> AfterLoad(l, <<>>)

\* The handler's first readTodosFromFile against the file as it is now.
FirstLoad(q) ==
  LET l == [q EXCEPT !.reads = 1]
  IN CASE ReadOutcome(file) = "ok" -> AfterLoad(l, JSONparse(file.rows))
       [] ReadOutcome(file) = "ENOENT" -> [l EXCEPT !.pc = "init"]
       [] ReadOutcome(file) = "error" -> Respond(l, 500, <<>>)

\* The handler has completed one more writeTodosToFile.
Written(q) == [q EXCEPT !.writes = @ + 1]

\* A variant of WithNewTodo that puts the new todo first, as unshift does.
WithNewTodoPrepended(q, id) ==
  LET n == newTodo(id, q.title, q.completed, clock)
  IN [q EXCEPT !.pc = "save", !.todos = <<n>> \o q.todos, !.data = <<n>>]

\* POST's code from the return of generateUniqueId up to writeTodosToFile.
WithNewTodo(q, id) ==
  LET n == newTodo(id, q.title, q.completed, clock)
  IN [q EXCEPT !.pc = "save", !.todos = Append(q.todos, n), !.data = <<n>>]

Free(r) == req[r].pc \in {"idle", "done"}

\* A request arrives and its handler runs up to the completion of its first
\* file operation; q is the request's state at that point.
Begin(r, q) ==
  /\ Free(r)
  /\ clock' = clock + 1
  /\ req' = [req EXCEPT ![r] = q]
  /\ UNCHANGED <<file, startup, issued>>

\* app.get('/todo')
GetTodos(r) == Begin(r, FirstLoad(Receive("GET", <<>>, Undefined, Undefined)))

\* app.get('/todo/:id')
GetTodo(r, p) == Begin(r, FirstLoad(Receive("GETID", p, Undefined, Undefined)))

\* app.post('/todo')
PostTodo(r, t, c) ==
  LET q == Receive("POST", <<>>, t, c)
  IN IF validTitle(t) THEN Begin(r, FirstLoad(q))
     ELSE Begin(r, Respond(q, 400, <<>>))

\* app.put('/todo/:id')
PutTodo(r, p, t, c) == Begin(r, FirstLoad(Receive("PUT", p, t, c)))

\* app.delete('/todo/:id')
DeleteTodo(r, p) == Begin(r, FirstLoad(Receive("DELETE", p, Undefined, Undefined)))

\* readTodosFromFile's catch branch for ENOENT: writeTodosToFile([]), then
\* return [] to the caller, which runs on.
LazyInit(r) ==
  /\ req[r].pc \in {"init", "initid"}
  /\ file' = writeTodosToFile(<<>>)
  /\ req' = [req EXCEPT ![r] =
               LET w == [req[r] EXCEPT !.writes = @ + 1]
               IN IF req[r].pc = "init" THEN AfterLoad(w, <<>>)
                  ELSE WithNewTodo(w, generateUniqueId(<<>>))]
  /\ UNCHANGED <<startup, clock, issued>>

\* POST: the readTodosFromFile inside generateUniqueId.
GenerateId(r) ==
  /\ req[r].pc = "genid"
  /\ req' = [req EXCEPT ![r] =
       LET l == [req[r] EXCEPT !.reads = @ + 1]
       IN CASE ReadOutcome(file) = "ok" ->
                 WithNewTodo(l, generateUniqueId(JSONparse(file.rows)))
            [] ReadOutcome(file) = "ENOENT" -> [l EXCEPT !.pc = "initid"]
            [] ReadOutcome(file) = "error" -> Respond(l, 500, <<>>)]
  /\ UNCHANGED <<file, startup, clock, issued>>

\* A variant of POST's write that appends the new todo to what the file
\* holds at the time of the write.
PostSaveAppending(r) ==
  /\ req[r].pc = "save" /\ req[r].method = "POST"
  /\ file' = writeTodosToFile(Append(JSONparse(file.rows), req[r].data[1]))
  /\ req' = [req EXCEPT ![r] = Respond(Written(req[r]), 201, req[r].data)]
  /\ issued' = issued \cup {req[r].data[1].id}
  /\ UNCHANGED <<startup, clock>>

\* POST: writeTodosToFile(todos), then the 201 response.
PostSave(r) ==
  /\ req[r].pc = "save" /\ req[r].method = "POST"
  /\ file' = writeTodosToFile(req[r].todos)
  /\ req' = [req EXCEPT ![r] = Respond(Written(req[r]), 201, req[r].data)]
  /\ issued' = issued \cup {req[r].data[1].id}
  /\ UNCHANGED <<startup, clock>>

\* PUT: writeTodosToFile(todos), then the 200 response.
PutSave(r) ==
  /\ req[r].pc = "save" /\ req[r].method = "PUT"
  /\ file' = writeTodosToFile(req[r].todos)
  /\ req' = [req EXCEPT ![r] = Respond(Written(req[r]), 200, req[r].data)]
  /\ UNCHANGED <<startup, clock, issued>>

\* DELETE: writeTodosToFile(todos), then the 200 response.
DeleteSave(r) ==
  /\ req[r].pc = "save" /\ req[r].method = "DELETE"
  /\ file' = writeTodosToFile(req[r].todos)
  /\ req' = [req EXCEPT ![r] = Respond(Written(req[r]), 200, <<>>)]
  /\ UNCHANGED <<startup, clock, issued>>

\* The app.listen callback: await readTodosFromFile().
StartupLoad ==
  /\ startup = "reading"
  /\ startup' = CASE ReadOutcome(file) = "ok" -> "done"
                  [] ReadOutcome(file) = "ENOENT" -> "init"
                  [] ReadOutcome(file) = "error" -> "failed"
  /\ UNCHANGED <<file, req, clock, issued>>

StartupInit ==
  /\ startup = "init"
  /\ file' = writeTodosToFile(<<>>)
  /\ startup' = "done"
  /\ UNCHANGED <<req, clock, issued>>

\* ------------------------------------------------------ specifications
\* A todo an earlier run of the server created and left in the file.
Seed == [id |-> 1, title |-> <<"a">>, completed |-> FALSE, createTime |-> 0]

\* Spec: up to MaxRequests requests, each in a slot of its own, interleave
\* at their file operations with each other and with the startup callback.
Init ==
  /\ file \in {NoFile, FileWith(<<>>), FileWith(<<Seed>>)}
  /\ startup = "reading"
  /\ req = [r \in Slots |-> Idle]
  /\ clock = 0
  /\ issued = {file.rows[i][1] : i \in 1..Len(file.rows)}

Admit(r) == r = clock + 1 /\ clock < MaxRequests

Next ==
  \/ StartupLoad
  \/ StartupInit
  \/ \E r \in Slots : Admit(r) /\ GetTodos(r)
  \/ \E r \in Slots, p \in ConcPathIds : Admit(r) /\ GetTodo(r, p)
  \/ \E r \in Slots, t \in ConcTitles, c \in ConcCompleteds :
        Admit(r) /\ PostTodo(r, t, c)
  \/ \E r \in Slots, p \in ConcPathIds, t \in ConcTitles, c \in ConcCompleteds :
        Admit(r) /\ PutTodo(r, p, t, c)
  \/ \E r \in Slots, p \in ConcPathIds : Admit(r) /\ DeleteTodo(r, p)
  \/ \E r \in Slots : LazyInit(r)
  \/ \E r \in Slots : GenerateId(r)
  \/ \E r \in Slots : PostSave(r)
  \/ \E r \in Slots : PutSave(r)
  \/ \E r \in Slots : DeleteSave(r)

Spec == Init /\ [][Next]_vars

\* SpecSeq: serial operation from an empty or a missing file.  A request is
\* received only when the one before has been answered, and the startup
\* callback runs between requests, not across one.  Slot 1 serves every
\* request: until the next request arrives it holds the last one served.
InitSeq ==
  /\ file \in {NoFile, FileWith(<<>>)}
  /\ startup = "reading"
  /\ req = [r \in Slots |-> Idle]
  /\ clock = 0
  /\ issued = {}

Quiet == \A r \in Slots : Free(r)
AdmitSeq(r) ==
  r = 1 /\ Quiet /\ startup # "init" /\ clock < MaxSeqRequests

NextSeq ==
  \/ Quiet /\ StartupLoad
  \/ StartupInit
  \/ \E r \in Slots : AdmitSeq(r) /\ GetTodos(r)
  \/ \E r \in Slots, p \in PathIds : AdmitSeq(r) /\ GetTodo(r, p)
  \/ \E r \in Slots, t \in Titles, c \in Completeds :
        AdmitSeq(r) /\ PostTodo(r, t, c)
  \/ \E r \in Slots, p \in PathIds, t \in Titles, c \in Completeds :
        AdmitSeq(r) /\ PutTodo(r, p, t, c)
  \/ \E r \in Slots, p \in PathIds : AdmitSeq(r) /\ DeleteTodo(r, p)
  \/ \E r \in Slots : LazyInit(r)
  \/ \E r \in Slots : GenerateId(r)
  \/ \E r \in Slots : PostSave(r)
  \/ \E r \in Slots : PutSave(r)
  \/ \E r \in Slots : DeleteSave(r)

SpecSeq == InitSeq /\ [][NextSeq]_vars

\* SpecPost: up to MaxPosts creates, each in a slot of its own, interleave
\* at their file operations; the store is empty and startup is over.
InitPost ==
  /\ file = FileWith(<<>>)
  /\ startup = "done"
  /\ req = [r \in Slots |-> Idle]
  /\ clock = 0
  /\ issued = {}

AdmitPost(r) == r = clock + 1 /\ clock < MaxPosts

NextPost ==
  \/ \E r \in Slots : AdmitPost(r) /\ PostTodo(r, String(<<"a">>), Undefined)
  \/ \E r \in Slots : GenerateId(r)
  \/ \E r \in Slots : PostSave(r)

SpecPost == InitPost /\ [][NextPost]_vars

\* SpecFail: as Spec, and the file may hold content JSON.parse rejects,
\* from the start or from some moment on.  The requests are one of each
\* route for the id 1, and a POST without a title.
InitFail ==
  /\ file \in {NoFile, Garbage, FileWith(<<Seed>>)}
  /\ startup = "reading"
  /\ req = [r \in Slots |-> Idle]
  /\ clock = 0
  /\ issued = {file.rows[i][1] : i \in 1..Len(file.rows)}

\* The file's content is damaged from outside the server; from then on
\* JSON.parse in readTodosFromFile throws until the file is written again.
Corrupt ==
  /\ ReadOutcome(file) = "ok"
  /\ file' = Garbage
  /\ UNCHANGED <<startup, req, clock, issued>>

NextFail ==
  \/ StartupLoad
  \/ StartupInit
  \/ Corrupt
  \/ \E r \in Slots : Admit(r) /\ GetTodos(r)
  \/ \E r \in Slots : Admit(r) /\ GetTodo(r, <<"1">>)
  \/ \E r \in Slots : \E t \in ConcTitles :
        Admit(r) /\ PostTodo(r, t, Undefined)
  \/ \E r \in Slots :
        Admit(r) /\ PutTodo(r, <<"1">>, String(<<"b">>), Bool(TRUE))
  \/ \E r \in Slots : Admit(r) /\ DeleteTodo(r, <<"1">>)
  \/ \E r \in Slots : LazyInit(r)
  \/ \E r \in Slots : GenerateId(r)
  \/ \E r \in Slots : PostSave(r)
  \/ \E r \in Slots : PutSave(r)
  \/ \E r \in Slots : DeleteSave(r)

SpecFail == InitFail /\ [][NextFail]_vars

\* SpecStore: the Store's two functions called directly, one call at a
\* time: writeTodosToFile with any collection of up to MaxStoreLen todos,
\* and readTodosFromFile as GET /todo calls it and returns its result.
StoreTodos ==
  {[id |-> i, title |-> t, completed |-> c, createTime |-> i - 1] :
     i \in 1..2, t \in {<<>>, <<"a">>}, c \in BOOLEAN}

StoreCollections ==
  UNION {[1..n -> StoreTodos] : n \in 0..MaxStoreLen}

InitStore ==
  /\ file \in {NoFile, FileWith(<<>>)}
  /\ startup = "done"
  /\ req = [r \in Slots |-> Idle]
  /\ clock = 0
  /\ issued = {}

AdmitStore == clock < MaxStoreCalls

\* await writeTodosToFile(todos), as every mutating handler ends.
SaveAll(todos) ==
  /\ Free(1)
  /\ file' = writeTodosToFile(todos)
  /\ req' = [req EXCEPT ![1] =
               Written([Idle EXCEPT !.pc = "done", !.method = "SAVE",
                                    !.todos = todos])]
  /\ clock' = clock + 1
  /\ UNCHANGED <<startup, issued>>

NextStore ==
  \/ \E todos \in StoreCollections : AdmitStore /\ SaveAll(todos)
  \/ AdmitStore /\ GetTodos(1)
  \/ LazyInit(1)

SpecStore == InitStore /\ [][NextStore]_vars

\* SpecFairFail: SpecFail in which every file operation a handler has
\* started completes: the continuation of a handler that waits for a
\* readFile or a writeFile is eventually run.
Continue(r) ==
  \/ LazyInit(r)
  \/ GenerateId(r)
  \/ PostSave(r)
  \/ PutSave(r)
  \/ DeleteSave(r)

SpecFairFail == SpecFail /\ \A r \in Slots : WF_vars(Continue(r))

\* ------------------------------------------------------------ properties
FileTodos == JSONparse(file.rows)
Ids(ts) == {ts[i].id : i \in 1..Len(ts)}
HasId(ts, id) == \E i \in 1..Len(ts) : ts[i].id = id
Without(ts, id) == SelectSeq(ts, LAMBDA t : t.id # id)

\* t is s without its leading and trailing spaces.
IsTrimOf(t, s) ==
  /\ t = <<>> \/ (t[1] # " " /\ t[Len(t)] # " ")
  /\ \E i \in 1..(Len(s) + 1) :
        /\ i + Len(t) - 1 <= Len(s)
        /\ t = SubSeq(s, i, i + Len(t) - 1)
        /\ \A k \in 1..Len(s) : (k < i \/ k > i + Len(t) - 1) => s[k] = " "

IsStringValue(v) == v.type = "string"

\* The step in which request r completes its final write and responds.
Saves(r, m) ==
  req[r].pc = "save" /\ req[r].method = m /\ req'[r].pc = "done"

Success(q) == q.pc = "done" /\ q.status \in {200, 201}
FirstIndex(ts, id) ==
  CHOOSE i \in 1..Len(ts) : ts[i].id = id /\ \A j \in 1..(i - 1) : ts[j].id # id

\* What a mutating request q, answered with data, makes of the snapshot it
\* loaded when it is the only one to change it.
OwnResult(q, data) ==
  LET ts == q.loaded
  IN CASE q.method = "POST" -> Append(ts, data[1])
       [] q.method = "PUT" ->
            [i \in 1..Len(ts) |->
               IF i = FirstIndex(ts, q.todoId) THEN data[1] ELSE ts[i]]
       [] q.method = "DELETE" ->
            [i \in 1..(Len(ts) - 1) |->
               IF i < FirstIndex(ts, q.todoId) THEN ts[i] ELSE ts[i + 1]]

\* C3: when a mutating request r writes after another mutating request q
\* that loaded the same snapshot and was answered with success, r is
\* answered with success too and the file then holds what r alone makes of
\* that snapshot: nothing of q's write is kept.
C3_LastWriteWins ==
  [][\A r, q \in Slots : \A m \in {"POST", "PUT", "DELETE"} :
       (/\ r # q
        /\ Saves(r, m)
        /\ Success(req[q])
        /\ req[q].method \in {"POST", "PUT", "DELETE"}
        /\ req[q].loaded = req[r].loaded)
       => /\ Success(req'[r])
          /\ JSONparse(file'.rows) = OwnResult(req[r], req'[r].data)]_vars

\* C3's case: two POSTs loaded the same snapshot, both were answered 201,
\* and the file holds one todo more than the snapshot, not two.
C3_Witness ==
  \E a, b \in Slots :
    /\ a # b
    /\ req[a].method = "POST" /\ req[a].pc = "done" /\ req[a].status = 201
    /\ req[b].method = "POST" /\ req[b].pc = "done" /\ req[b].status = 201
    /\ req[a].loaded = req[b].loaded
    /\ file.exists
    /\ Len(FileTodos) = Len(req[a].loaded) + 1

HasDuplicateIds(ts) ==
  \E i, j \in 1..Len(ts) : i # j /\ ts[i].id = ts[j].id

\* C4: concurrent creates alone can leave two todos with one id in the
\* file.  Four POSTs suffice (the witness); with fewer than four the file
\* never holds a duplicate id (the invariant).
C4_DuplicateIdsTakeFourPosts == HasDuplicateIds(FileTodos) => clock >= 4

\* C4's case: after four POSTs from an empty store the file holds two todos
\* with the same id, and two POSTs were answered 201 with the same id.
C4_Witness ==
  /\ clock = 4
  /\ HasDuplicateIds(FileTodos)
  /\ \E a, b \in Slots :
        /\ a # b
        /\ req[a].status = 201 /\ req[b].status = 201
        /\ req[a].data[1].id = req[b].data[1].id

\* C5: no handler reads or writes the file before the startup callback has
\* finished, and no request finds the file missing.
C5_StartupBeforeRequests ==
  \A r \in Slots :
    /\ req[r].reads + req[r].writes > 0 => startup = "done"
    /\ req[r].pc \notin {"init", "initid"}

C7_InvalidTitleRejected ==
  [][\A r \in Slots :
       (req'[r].method = "POST" /\ ~IsStringValue(req'[r].title))
       => /\ req'[r].pc = "done"
          /\ req'[r].status = 400
          /\ req'[r].reads = 0 /\ req'[r].writes = 0
          /\ req'[r] # req[r] => file' = file]_vars

\* C7's case: a POST with title 123 has been answered 400 on a non-empty
\* collection.
C7_Witness ==
  /\ req[1].method = "POST" /\ req[1].title = Number(123)
  /\ req[1].status = 400
  /\ Len(FileTodos) >= 1

\* C8: a PUT on an existing todo whose body holds a string title or none
\* is answered 200; completed is set to the body's value whenever the body
\* defines it (false included) and kept otherwise; title is replaced by the
\* trimmed body title when that is truthy and kept otherwise; the file
\* holds the result.
C8_PutMerges ==
  \A r \in Slots :
    LET q == req[r]
    IN (/\ q.method = "PUT" /\ q.pc = "done"
        /\ HasId(q.loaded, q.todoId)
        /\ q.title.type \in {"undefined", "string"})
       => LET i == FirstIndex(q.loaded, q.todoId)
              old == q.loaded[i]
              new == q.data[1]
          IN /\ q.status = 200
             /\ q.completed.type = "boolean" => new.completed = q.completed.bool
             /\ q.completed = Undefined => new.completed = old.completed
             /\ Truthy(q.title) => IsTrimOf(new.title, q.title.str)
             /\ ~Truthy(q.title) => new.title = old.title
             /\ FileTodos[i] = new

\* C8's case: a body holding only completed: false was applied to a todo
\* that was completed and had the title "a".
C8_Witness ==
  /\ req[1].method = "PUT" /\ req[1].status = 200
  /\ req[1].title = Undefined /\ req[1].completed = Bool(FALSE)
  /\ req[1].loaded[1].completed = TRUE
  /\ req[1].loaded[1].title = <<"a">>
  /\ req[1].todoId = 1

ById == {"GETID", "PUT", "DELETE"}

\* C9: GET, PUT and DELETE by an id no todo has are answered 404 and
\* perform no write.
C9_MissingIdNoWrite ==
  \A r \in Slots :
    (/\ req[r].method \in ById /\ req[r].pc = "done"
     /\ ~HasId(req[r].loaded, req[r].todoId))
    => req[r].status = 404 /\ req[r].writes = 0

\* What holds in place of C9: GET, PUT and DELETE by an id no todo has are
\* answered 404 and leave an existing file as it is; the one write such a
\* request can perform is readTodosFromFile's initialization of a missing
\* file with an empty array.
C9_MissingIdNoChange ==
  [][\A r \in Slots :
       (/\ req'[r] # req[r]
        /\ req'[r].method \in ById /\ req'[r].pc = "done"
        /\ ~HasId(req'[r].loaded, req'[r].todoId))
       => /\ req'[r].status = 404
          /\ file.exists => (file' = file /\ req'[r].writes = 0)
          /\ ~file.exists => (file' = FileWith(<<>>) /\ req'[r].writes = 1)]_vars

\* A DELETE by an id no todo has was answered 404 on a non-empty
\* collection.
C9_Witness ==
  /\ req[1].method = "DELETE" /\ req[1].status = 404
  /\ Len(req[1].loaded) >= 1
  /\ FileTodos = req[1].loaded

\* C10: every title in the file is a non-empty string equal to its own
\* trimmed form.
C10_TitlesNonEmptyTrimmed ==
  \A i \in 1..Len(FileTodos) :
    /\ FileTodos[i].title # <<>>
    /\ IsTrimOf(FileTodos[i].title, FileTodos[i].title)

\* The file is there and JSON.parse rejects its content.
Unparsable == file.exists /\ ~file.valid

\* In this step request r completes a readTodosFromFile: the first one of
\* its handler, or the one inside generateUniqueId.
Reads(r) ==
  \/ req[r].pc = "idle" /\ req'[r].reads = 1
  \/ req[r].pc = "genid" /\ req'[r] # req[r]

Initialises(r) == req[r].pc \in {"init", "initid"} /\ req'[r] # req[r]

C15_PutFrame ==
  [][LET after == JSONparse(file'.rows)
     IN /\ \A r \in Slots :
             LET before == req[r].loaded
             IN /\ Saves(r, "PUT") =>
                     /\ Len(after) = Len(before)
                     /\ \A i \in 1..Len(before) :
                           /\ after[i].id = before[i].id
                           /\ after[i].createTime = before[i].createTime
                           /\ i # FirstIndex(before, req[r].todoId)
                                => after[i] = before[i]
                /\ Saves(r, "POST") =>
                     /\ Len(after) = Len(before) + 1
                     /\ \A i \in 1..Len(before) : after[i] = before[i]
                /\ Saves(r, "DELETE") =>
                     \A j \in 1..Len(after) :
                       \E i \in 1..Len(before) : after[j] = before[i]
        /\ (file' # file /\ \A r \in Slots : req'[r].pc # "done"
                                              \/ req[r].pc # "save")
             => after = <<>>
    ]_vars

\* C15's case: a PUT that changed the title and the flag of the first of
\* two todos was answered 200, and the file holds the second todo and the
\* first one's id and createTime as the PUT loaded them.
C15_Witness ==
  /\ req[2].method = "PUT" /\ req[2].pc = "done" /\ req[2].status = 200
  /\ Len(req[2].loaded) = 2
  /\ req[2].loaded[1] = Seed
  /\ req[2].data[1].title = <<"b">> /\ req[2].data[1].completed
  /\ Len(FileTodos) = 2
  /\ FileTodos[1].id = 1 /\ FileTodos[1].createTime = 0
  /\ FileTodos[1].title = <<"b">>
  /\ FileTodos[2] = req[2].loaded[2]

\* The handler of request r waits for a file operation.
InFlight(r) == req[r].pc \in {"init", "genid", "initid", "save"}

C17_InitKeepsTodos ==
  [][((startup = "init" /\ startup' = "done")
        \/ \E r \in Slots : Initialises(r))
     => Len(file.rows) = 0]_vars

\* C18: in serial operation, the id a POST is about to store was never
\* returned by an earlier successful POST.
C18_IdsNeverReused ==
  \A r \in Slots :
    (req[r].method = "POST" /\ req[r].pc = "save")
    => req[r].data[1].id \notin issued

\* C18 as it holds: in serial operation, the id a POST is about to store
\* is larger than the id of every todo in the file, so no stored todo has
\* it; an id that was returned before is assigned again only when the file
\* holds neither this id nor a larger one.
C18_NewIdAboveStored ==
  \A r \in Slots :
    (req[r].method = "POST" /\ req[r].pc = "save")
    => LET n == req[r].data[1].id
       IN /\ n >= 1
          /\ \A i \in 1..Len(FileTodos) : FileTodos[i].id < n
          /\ ~HasId(FileTodos, n)

\* C18's case: with todo 1 stored and todo 2 created and deleted, a POST is
\* about to store a new todo under the id 2 again.
C18_Witness ==
  /\ req[1].method = "POST" /\ req[1].pc = "save"
  /\ req[1].data[1].id = 2
  /\ issued = {1, 2}
  /\ Len(FileTodos) = 1 /\ FileTodos[1].id = 1

\* The path id consists of decimal digits only.
NumericString(p) ==
  /\ Len(p) > 0
  /\ \A i \in 1..Len(p) :
       p[i] \in {"0", "1", "2", "3", "4", "5", "6", "7", "8", "9"}

\* C19: GET, PUT and DELETE on /todo/:id with a path id that is not a
\* numeric string, a numeric prefix followed by other characters included,
\* find no todo: the request is answered 404 and never gets to write the
\* collection.
C19_NonNumericIdMisses ==
  \A r \in Slots :
    (/\ req[r].method \in ById
     /\ req[r].pc \in {"save", "done"}
     /\ ~NumericString(req[r].pathId))
    => req[r].pc = "done" /\ req[r].status = 404

====
